---- MODULE Spec2Model ----
(***************************************************************************)
(* docuProof OpenTimestamps sidecar.                                       *)
(*                                                                         *)
(*   src/docuproof-ots-sidecar/upgrade.py  POST /upgrade  (receipt cache)  *)
(*   src/ots-service/main.py               POST /submit   (stamping)       *)
(*                                                                         *)
(* Every request is served by a worker p \in Procs.  A worker's position   *)
(* in its handler is pc[p]; one action is one system call, one subprocess  *)
(* or one library call of the handler.  The receipts directory is the      *)
(* variable files, keyed by path.  Variables named in the comments as      *)
(* "history" record what a handler did and are read by properties only.    *)
(***************************************************************************)
EXTENDS Integers, Sequences, FiniteSets, TLC

(* ------------------------------ bounds --------------------------------- *)

\* Number of concurrent workers.
NumProcs == 2

\* Largest number of attestations a timestamp carries.
MaxAtts == 3

\* Number of requests served in one run.
MaxOps == 3

\* Largest run of whitespace put before or after a candidate digest.
MaxPad == 1

Procs == 1..NumProcs

(* --------------------------- program constants ------------------------- *)

\* re.fullmatch(r"[0-9a-f]{64}", ...)
DigestLen == 64

\* receipts_dir = "/app/receipts"
receipts_dir == <<"app", "receipts">>

(* ------------------------------ values --------------------------------- *)

\* Python's None for a txid.
None == "None"

\* An id that is falsy in Python: the key is missing, null or "".
NoId == <<>>

\* Proof ids in requests, as sequences of path segments: one whose receipt
\* is in the cache and one whose receipt is not.
Ids == {<<"doc1">>, <<"missing">>}

\* Ledger transaction ids the calendar can hand out.
Txids == {"tx1", "tx2"}

\* PendingAttestation('url'): no txid attribute.
PendingAtt == [cls |-> "Pending", txid |-> None]

\* BitcoinAttestation(txid).
BitcoinAtt(t) == [cls |-> "Bitcoin", txid |-> t]

Attestations == {PendingAtt} \cup {BitcoinAtt(t) : t \in Txids}

\* A file of the file system: absent, or present with its bytes.
Absent == [exists |-> FALSE, data |-> <<>>]

File(bytes) == [exists |-> TRUE, data |-> bytes]

\* No temporary directory.
NoDir == [dir |-> FALSE, data |-> Absent, ots |-> Absent, req |-> Absent]

\* tempfile.TemporaryDirectory(): a fresh, empty directory.
EmptyDir == [NoDir EXCEPT !.dir = TRUE]

(* --------------------- Timestamp (de)serialization --------------------- *)

\* First byte of every serialized timestamp.
Magic == "OTS"

\* One attestation as one unit of the serialized form.
EncodeAtt(att) == IF att.cls = "Pending" THEN "P" ELSE att.txid

DecodeAtt(b) == IF b = "P" THEN PendingAtt ELSE BitcoinAtt(b)

AttBytes == {EncodeAtt(a) : a \in Attestations}

\* ts.serialize()
serialize(t) == <<Magic>> \o [i \in 1..Len(t) |-> EncodeAtt(t[i])]

\* Timestamp.deserialize raises on input that is not a serialized timestamp.
Parses(bytes) ==
    /\ Len(bytes) >= 2
    /\ bytes[1] = Magic
    /\ \A i \in 2..Len(bytes) : bytes[i] \in AttBytes

\* Timestamp.deserialize(bytes), defined where Parses(bytes).
deserialize(bytes) == [i \in 1..(Len(bytes) - 1) |-> DecodeAtt(bytes[i + 1])]

(* -------------------------- extract_txid ------------------------------- *)

\* getattr(att, 'txid', None)
GetTxid(att) == IF att.cls = "Bitcoin" THEN att.txid ELSE None

\* Python truthiness of a txid.
Truthy(t) == t # None /\ t # ""

RECURSIVE extract_from(_, _)
extract_from(t, i) ==
    IF i > Len(t) THEN None
    ELSE IF Truthy(GetTxid(t[i])) THEN GetTxid(t[i])
    ELSE extract_from(t, i + 1)

\* extract_txid that keeps looking and answers the last txid it met.
extract_txid_Last(t) ==
    LET found == {i \in 1..Len(t) : Truthy(GetTxid(t[i]))} IN
      IF found = {} THEN None
      ELSE GetTxid(t[CHOOSE i \in found : \A j \in found : j <= i])

\* extract_txid(ts): the first truthy txid in iteration order, else None.
extract_txid(t) == extract_from(t, 1)

(* ------------------------------ files ---------------------------------- *)

\* os.path.join(receipts_dir, f"{proof_id}.ots"); the suffix is implicit.
ReceiptPath(id) == receipts_dir \o id

\* Ids with a parent-directory segment and a separator: "../secret".
TraversalIds == {<<"..", "secret">>}

\* The file a path names once the system has resolved its ".." segments.
RECURSIVE resolve(_, _)
resolve(path, seen) ==
    IF path = <<>> THEN seen
    ELSE IF path[1] = ".."
         THEN resolve(Tail(path), SubSeq(seen, 1, Len(seen) - 1))
         ELSE resolve(Tail(path), Append(seen, path[1]))

realpath(path) == resolve(path, <<>>)

\* The file that open(receipt_path) and os.path.exists(receipt_path) reach.
Location(id) == realpath(ReceiptPath(id))

Paths == {Location(i) : i \in Ids \cup TraversalIds}

\* A write of data at offset 0 into a file holding old.
Overwrite(old, data) == data \o SubSeq(old, Len(data) + 1, Len(old))

\* base64.b64encode(...).decode()
b64(bytes) == <<"b64">> \o bytes

(* ------------------------------ state ---------------------------------- *)

VARIABLES
    pc,          \* worker -> position in its handler
    req,         \* worker -> JSON body of the request it serves
    proof_id,    \* worker -> upgrade(): proof_id
    ts,          \* worker -> upgrade(): the deserialized Timestamp
    response,    \* worker -> the response it returned
    files,       \* path -> file under /app/receipts
    loaded,      \* worker -> upgrade(): the bytes f.read() returned
    h,           \* worker -> submit(): the normalized hash
    tmp,         \* worker -> submit(): its temporary directory
    receipt,     \* worker -> submit(): the bytes read from req.ots
    returncode,  \* worker -> submit(): exit statuses of p0, p1, pmv, p2 so far
    ran,         \* history: worker -> file-system and subprocess steps of submit()
    adapter,     \* history: worker -> outcome of its upgrade_timestamp call
    wrote,       \* history: worker -> it opened a receipt file for writing
    written,     \* history: path -> receipts some handler wrote, and the first
    wasAnchored, \* history: path -> an anchored receipt was stored at path
    ops          \* history: number of requests received

vars == <<pc, req, proof_id, ts, response, files, loaded, h, tmp, receipt, ran,
          returncode, adapter, wrote, written, wasAnchored, ops>>

\* The locals of submit().
svars == <<h, tmp, receipt, ran, returncode>>

\* The locals of upgrade().
uvars == <<proof_id, ts, loaded, adapter>>

\* The receipts directory and its history.
store == <<files, written, wasAnchored>>

(* ----------------------------- responses ------------------------------- *)

\* No request is being served.
NoRequest == [route |-> "", id |-> NoId, hash |-> <<>>]

NoResponse == [code |-> 0, ok |-> FALSE, error |-> "", id |-> <<>>,
               txid |-> None, confirmations |-> 0, receipt_b64 |-> <<>>]

ErrorResponse(c, e) == [NoResponse EXCEPT !.code = c, !.error = e]

\* upgrade.py:33
MissingId == ErrorResponse(400, "Missing id")

\* upgrade.py:42
NotFound == ErrorResponse(404, "Receipt not found in sidecar")

\* upgrade.py:52
UpgradeFailed == ErrorResponse(500, "Upgrade failed")

\* An exception that leaves the handler: Flask answers 500.
Unhandled == ErrorResponse(500, "Internal Server Error")

\* upgrade.py:60-66
UpgradeOk(id, t) ==
    [code |-> 200, ok |-> TRUE, error |-> "", id |-> id,
     txid |-> extract_txid(t), confirmations |-> 0,
     receipt_b64 |-> b64(serialize(t))]

(* --------------------------- status of a file -------------------------- *)

\* The stored receipt carries a txid.
Anchored(f) == f.exists /\ Parses(f.data) /\ extract_txid(deserialize(f.data)) # None

\* The stored receipt parses and carries no txid.
Pending(f) == f.exists /\ Parses(f.data) /\ extract_txid(deserialize(f.data)) = None

(* ------------------------------- Init ---------------------------------- *)

\* Receipts the cache may hold for doc1 when the service starts.
InitFiles == {File(serialize(<<PendingAtt>>)),
              File(serialize(<<PendingAtt, BitcoinAtt("tx1")>>))}

InitLocals ==
    /\ pc = [p \in Procs |-> "idle"]
    /\ req = [p \in Procs |-> NoRequest]
    /\ proof_id = [p \in Procs |-> NoId]
    /\ ts = [p \in Procs |-> <<>>]
    /\ response = [p \in Procs |-> NoResponse]
    /\ loaded = [p \in Procs |-> <<>>]
    /\ h = [p \in Procs |-> <<>>]
    /\ tmp = [p \in Procs |-> NoDir]
    /\ receipt = [p \in Procs |-> <<>>]
    /\ ran = [p \in Procs |-> <<>>]
    /\ returncode = [p \in Procs |-> <<>>]
    /\ adapter = [p \in Procs |-> "none"]
    /\ wrote = [p \in Procs |-> FALSE]

Init ==
    /\ InitLocals
    /\ \E f \in InitFiles :
         files = [q \in Paths |-> IF q = Location(<<"doc1">>) THEN f ELSE Absent]
    /\ written = [q \in Paths |-> IF files[q].exists THEN {files[q].data} ELSE {}]
    /\ wasAnchored = [q \in Paths |-> Anchored(files[q])]
    /\ ops = 0

(* ------------------------- POST /upgrade ------------------------------- *)

\* Upgrade requests: a body with an id, or without one.
UpgradeBodies == [route : {"/upgrade"}, id : Ids \cup {NoId}, hash : {<<>>}]

\* History kept with every change of the receipts directory.
Record(newfiles) ==
    wasAnchored' = [q \in Paths |-> wasAnchored[q] \/ Anchored(newfiles[q])]

\* upgrade.py:29-33: read the body; reject a missing id.
UpgradeReceive(p, body) ==
    /\ pc[p] = "idle"
    /\ ops < MaxOps
    /\ ops' = ops + 1
    /\ req' = [req EXCEPT ![p] = body]
    /\ proof_id' = [proof_id EXCEPT ![p] = body.id]
    /\ IF body.id = NoId
       THEN /\ pc' = [pc EXCEPT ![p] = "done"]
            /\ response' = [response EXCEPT ![p] = MissingId]
       ELSE /\ pc' = [pc EXCEPT ![p] = "u_check"]
            /\ UNCHANGED response
    /\ UNCHANGED <<h, tmp, receipt, ran, returncode, ts, files, loaded, adapter, wrote, written, wasAnchored>>

\* UpgradeCheck without the test of os.path.exists.
UpgradeCheck_NoExistsTest(p) ==
    /\ pc[p] = "u_check"
    /\ pc' = [pc EXCEPT ![p] = "u_load"]
    /\ UNCHANGED <<response, svars, req, uvars, wrote, store, ops>>

\* upgrade.py:36-42: os.path.exists(receipt_path).
UpgradeCheck(p) ==
    /\ pc[p] = "u_check"
    /\ IF files[Location(proof_id[p])].exists
       THEN /\ pc' = [pc EXCEPT ![p] = "u_load"]
            /\ UNCHANGED response
       ELSE /\ pc' = [pc EXCEPT ![p] = "done"]
            /\ response' = [response EXCEPT ![p] = NotFound]
    /\ UNCHANGED <<h, tmp, receipt, ran, returncode, req, proof_id, ts, files, loaded, adapter, wrote, written, wasAnchored, ops>>

\* upgrade.py:45-46: read the file and deserialize it.
UpgradeLoad(p) ==
    /\ pc[p] = "u_load"
    /\ LET bytes == files[Location(proof_id[p])].data IN
         /\ loaded' = [loaded EXCEPT ![p] = bytes]
         /\ IF Parses(bytes)
            THEN /\ ts' = [ts EXCEPT ![p] = deserialize(bytes)]
                 /\ pc' = [pc EXCEPT ![p] = "u_call"]
                 /\ UNCHANGED response
            ELSE /\ pc' = [pc EXCEPT ![p] = "done"]
                 /\ response' = [response EXCEPT ![p] = Unhandled]
                 /\ UNCHANGED ts
    /\ UNCHANGED <<h, tmp, receipt, ran, returncode, req, proof_id, files, adapter, wrote, written, wasAnchored, ops>>

\* upgrade_timestamp(ts) found something: ts gains an attestation.
Upgraded(t) == IF Len(t) < MaxAtts
               THEN {Append(t, BitcoinAtt(x)) : x \in Txids}
               ELSE {}

\* upgrade.py:50: the calendars answer with nothing new.
AdapterNoProgress(p) ==
    /\ adapter' = [adapter EXCEPT ![p] = "nochange"]
    /\ pc' = [pc EXCEPT ![p] = "u_open"]
    /\ UNCHANGED <<ts, response, files, wrote, written, wasAnchored, ops>>

\* upgrade.py:50: the calendars answer with a new attestation.
AdapterChanged(p) ==
    /\ \E t \in Upgraded(ts[p]) : ts' = [ts EXCEPT ![p] = t]
    /\ adapter' = [adapter EXCEPT ![p] = "changed"]
    /\ pc' = [pc EXCEPT ![p] = "u_open"]
    /\ UNCHANGED <<response, files, wrote, written, wasAnchored, ops>>

\* AdapterFailed with an except clause that does not return.
AdapterFailed_FallsThrough(p) ==
    /\ adapter' = [adapter EXCEPT ![p] = "failed"]
    /\ pc' = [pc EXCEPT ![p] = "u_open"]
    /\ UNCHANGED <<ts, response, files, wrote, written, wasAnchored, ops>>

\* upgrade.py:51-52: upgrade_timestamp raised.
AdapterFailed(p) ==
    /\ adapter' = [adapter EXCEPT ![p] = "failed"]
    /\ pc' = [pc EXCEPT ![p] = "done"]
    /\ response' = [response EXCEPT ![p] = UpgradeFailed]
    /\ UNCHANGED <<ts, files, wrote, written, wasAnchored, ops>>

\* upgrade.py:48-52: try: upgrade_timestamp(ts) except Exception.
UpgradeCall(p) ==
    /\ pc[p] = "u_call"
    /\ \/ AdapterNoProgress(p)
       \/ AdapterChanged(p)
       \/ AdapterFailed(p)
    /\ UNCHANGED <<h, tmp, receipt, ran, returncode, req, proof_id, loaded, ops>>

\* upgrade.py:55: open(receipt_path, "wb") truncates the file.
UpgradeOpen(p) ==
    /\ pc[p] = "u_open"
    /\ pc' = [pc EXCEPT ![p] = "u_write"]
    /\ LET newfiles == [files EXCEPT ![Location(proof_id[p])] = File(<<>>)] IN
         /\ files' = newfiles
         /\ Record(newfiles)
    /\ wrote' = [wrote EXCEPT ![p] = TRUE]
    /\ UNCHANGED <<h, tmp, receipt, ran, returncode, req, proof_id, ts, response, loaded, adapter, written, ops>>

\* upgrade.py:56: f.write(ts.serialize()) at offset 0, then close.
UpgradeWrite(p) ==
    /\ pc[p] = "u_write"
    /\ pc' = [pc EXCEPT ![p] = "u_respond"]
    /\ LET q == Location(proof_id[p])
           newfiles == [files EXCEPT ![q] = File(Overwrite(files[q].data, serialize(ts[p])))] IN
         /\ files' = newfiles
         /\ Record(newfiles)
         /\ written' = [written EXCEPT ![q] = @ \cup {serialize(ts[p])}]
    /\ UNCHANGED <<h, tmp, receipt, ran, returncode, req, proof_id, ts, response, loaded, adapter, wrote, ops>>

\* upgrade.py:58-66: extract the txid and answer.
UpgradeRespond(p) ==
    /\ pc[p] = "u_respond"
    /\ pc' = [pc EXCEPT ![p] = "done"]
    /\ response' = [response EXCEPT ![p] = UpgradeOk(proof_id[p], ts[p])]
    /\ UNCHANGED <<h, tmp, receipt, ran, returncode, req, proof_id, ts, files, loaded, adapter, wrote, written, wasAnchored, ops>>

\* The worker is free for the next request.
Return(p) ==
    /\ pc[p] = "done"
    /\ pc' = [pc EXCEPT ![p] = "idle"]
    /\ req' = [req EXCEPT ![p] = NoRequest]
    /\ proof_id' = [proof_id EXCEPT ![p] = NoId]
    /\ ts' = [ts EXCEPT ![p] = <<>>]
    /\ response' = [response EXCEPT ![p] = NoResponse]
    /\ loaded' = [loaded EXCEPT ![p] = <<>>]
    /\ h' = [h EXCEPT ![p] = <<>>]
    /\ tmp' = [tmp EXCEPT ![p] = NoDir]
    /\ receipt' = [receipt EXCEPT ![p] = <<>>]
    /\ ran' = [ran EXCEPT ![p] = <<>>]
    /\ returncode' = [returncode EXCEPT ![p] = <<>>]
    /\ adapter' = [adapter EXCEPT ![p] = "none"]
    /\ wrote' = [wrote EXCEPT ![p] = FALSE]
    /\ UNCHANGED <<files, written, wasAnchored, ops>>

\* upgrade(): worker p takes a request.
UpgradeStart(p) == \E body \in UpgradeBodies : UpgradeReceive(p, body)

\* upgrade(): worker p takes the next step of the handler.
UpgradeStep(p) ==
    \/ UpgradeCheck(p)
    \/ UpgradeLoad(p)
    \/ UpgradeCall(p)
    \/ UpgradeOpen(p)
    \/ UpgradeWrite(p)
    \/ UpgradeRespond(p)

(* ------------------------- digest validation --------------------------- *)

\* Characters a candidate digest is made of.
HexLower == {"0", "1", "2", "3", "4", "5", "6", "7", "8", "9",
             "a", "b", "c", "d", "e", "f"}

HexUpper == {"A", "B", "C", "D", "E", "F"}

\* Characters str.strip() removes.
Whitespace == {" ", "\t", "\n"}

\* str.lower() of one character.
lower_char(c) ==
    CASE c = "A" -> "a" [] c = "B" -> "b" [] c = "C" -> "c"
      [] c = "D" -> "d" [] c = "E" -> "e" [] c = "F" -> "f"
      [] c = "G" -> "g" [] c = "Z" -> "z" [] OTHER -> c

\* str.lower()
lower(str) == [i \in 1..Len(str) |-> lower_char(str[i])]

RECURSIVE lstrip(_)
lstrip(str) ==
    IF Len(str) > 0 /\ Head(str) \in Whitespace THEN lstrip(Tail(str)) ELSE str

RECURSIVE rstrip(_)
rstrip(str) ==
    IF Len(str) > 0 /\ str[Len(str)] \in Whitespace
    THEN rstrip(SubSeq(str, 1, Len(str) - 1))
    ELSE str

\* str.strip()
strip(str) == rstrip(lstrip(str))

\* normalize without the call of lower().
normalize_NoLower(str) == strip(str)

\* main.py:32: (j.get("hash") or "").strip().lower()
normalize(str) == lower(strip(str))

\* main.py:35: re.fullmatch(r"[0-9a-f]{64}", h)
fullmatch(str) == Len(str) = DigestLen /\ \A i \in 1..Len(str) : str[i] \in HexLower

\* xxd -r -p: two hex digits make one byte.
unhex(str) == [i \in 1..(Len(str) \div 2) |-> <<str[2 * i - 1], str[2 * i]>>]

\* n copies of the character c.
Rep(c, n) == [i \in 1..n |-> c]

(* --------------------------- POST /submit ------------------------------ *)

\* main.py:36
InvalidDigest == ErrorResponse(400, "hash must be 64-char sha256 hex")

\* main.py:48
PrepareFailed == ErrorResponse(500, "prepare-bytes failed")

\* main.py:56
StampFailed == ErrorResponse(500, "stamp failed")

\* main.py:64
RenameFailed == ErrorResponse(500, "rename request failed")

\* main.py:76
CalendarSubmitFailed == ErrorResponse(502, "calendar submit failed")

\* main.py:82-85
SubmitOk(bytes) ==
    [NoResponse EXCEPT !.code = 200, !.ok = TRUE, !.receipt_b64 = b64(bytes)]

\* Hashes of submit requests: lowercase, uppercase, padded, not hex, empty.
SubmitHashes == {Rep("0", DigestLen), Rep("A", DigestLen),
                 <<" ">> \o Rep("f", DigestLen), Rep("z", DigestLen), <<>>}

\* Submit requests; the handler reads "hash" only.
SubmitBodies == [route : {"/submit"}, id : Ids, hash : SubmitHashes]

\* A return from inside the with block: the directory is removed.
SubmitReturn(p, resp) ==
    /\ pc' = [pc EXCEPT ![p] = "done"]
    /\ response' = [response EXCEPT ![p] = resp]
    /\ tmp' = [tmp EXCEPT ![p] = NoDir]

\* main.py:31: read the body.
SubmitReceive(p, body) ==
    /\ pc[p] = "idle"
    /\ ops < MaxOps
    /\ ops' = ops + 1
    /\ req' = [req EXCEPT ![p] = body]
    /\ pc' = [pc EXCEPT ![p] = "s_validate"]
    /\ UNCHANGED <<response, svars, uvars, wrote, store>>

\* SubmitValidate with the check moved into the with block.
SubmitValidate_InsideWith(p) ==
    /\ pc[p] = "s_validate"
    /\ h' = [h EXCEPT ![p] = normalize(req[p].hash)]
    /\ ran' = [ran EXCEPT ![p] = Append(@, "mkdtemp")]
    /\ IF fullmatch(normalize(req[p].hash))
       THEN /\ pc' = [pc EXCEPT ![p] = "s_prepare"]
            /\ tmp' = [tmp EXCEPT ![p] = EmptyDir]
            /\ UNCHANGED response
       ELSE SubmitReturn(p, InvalidDigest)
    /\ UNCHANGED <<req, receipt, returncode, uvars, wrote, store, ops>>

\* main.py:32-36: normalize the hash and reject what does not match.
SubmitValidate(p) ==
    /\ pc[p] = "s_validate"
    /\ h' = [h EXCEPT ![p] = normalize(req[p].hash)]
    /\ IF fullmatch(normalize(req[p].hash))
       THEN /\ pc' = [pc EXCEPT ![p] = "s_mktmp"]
            /\ UNCHANGED response
       ELSE /\ pc' = [pc EXCEPT ![p] = "done"]
            /\ response' = [response EXCEPT ![p] = InvalidDigest]
    /\ UNCHANGED <<req, tmp, receipt, ran, returncode, uvars, wrote, store, ops>>

\* main.py:38-40: create the temporary directory.
SubmitMkTmp(p) ==
    /\ pc[p] = "s_mktmp"
    /\ tmp' = [tmp EXCEPT ![p] = EmptyDir]
    /\ ran' = [ran EXCEPT ![p] = Append(@, "mkdtemp")]
    /\ pc' = [pc EXCEPT ![p] = "s_prepare"]
    /\ UNCHANGED <<req, response, h, receipt, returncode, uvars, wrote, store, ops>>

\* main.py:43-48: echo -n h | xxd -r -p > hash.bin
SubmitPrepare(p) ==
    /\ pc[p] = "s_prepare"
    /\ ran' = [ran EXCEPT ![p] = Append(@, "prepare")]
    /\ \/ /\ returncode' = [returncode EXCEPT ![p] = Append(@, 0)]
          /\ tmp' = [tmp EXCEPT ![p].data = File(unhex(h[p]))]
          /\ pc' = [pc EXCEPT ![p] = "s_stamp"]
          /\ UNCHANGED response
       \/ /\ returncode' = [returncode EXCEPT ![p] = Append(@, 1)]
          /\ SubmitReturn(p, PrepareFailed)
    /\ UNCHANGED <<req, h, receipt, uvars, wrote, store, ops>>

\* SubmitStamp without the test of p1.returncode.
SubmitStamp_IgnoresExit(p) ==
    /\ pc[p] = "s_stamp"
    /\ ran' = [ran EXCEPT ![p] = Append(@, "stamp")]
    /\ \E rc \in {0, 1} : returncode' = [returncode EXCEPT ![p] = Append(@, rc)]
    /\ \E f \in {File(serialize(<<PendingAtt>>)), Absent} :
         tmp' = [tmp EXCEPT ![p].ots = f]
    /\ pc' = [pc EXCEPT ![p] = "s_mv"]
    /\ UNCHANGED <<req, response, h, receipt, uvars, wrote, store, ops>>

\* main.py:51-56: ots stamp hash.bin; exit status 0 with or without hash.bin.ots.
SubmitStamp(p) ==
    /\ pc[p] = "s_stamp"
    /\ ran' = [ran EXCEPT ![p] = Append(@, "stamp")]
    /\ \/ /\ returncode' = [returncode EXCEPT ![p] = Append(@, 0)]
          /\ \E f \in {File(serialize(<<PendingAtt>>)), Absent} :
                tmp' = [tmp EXCEPT ![p].ots = f]
          /\ pc' = [pc EXCEPT ![p] = "s_mv"]
          /\ UNCHANGED response
       \/ /\ returncode' = [returncode EXCEPT ![p] = Append(@, 1)]
          /\ SubmitReturn(p, StampFailed)
    /\ UNCHANGED <<req, h, receipt, uvars, wrote, store, ops>>

\* main.py:59-64: mv hash.bin.ots req.ots
SubmitRename(p) ==
    /\ pc[p] = "s_mv"
    /\ ran' = [ran EXCEPT ![p] = Append(@, "mv")]
    /\ IF tmp[p].ots.exists
       THEN /\ returncode' = [returncode EXCEPT ![p] = Append(@, 0)]
            /\ tmp' = [tmp EXCEPT ![p].req = tmp[p].ots, ![p].ots = Absent]
            /\ pc' = [pc EXCEPT ![p] = "s_upgrade"]
            /\ UNCHANGED response
       ELSE /\ returncode' = [returncode EXCEPT ![p] = Append(@, 1)]
            /\ SubmitReturn(p, RenameFailed)
    /\ UNCHANGED <<req, h, receipt, uvars, wrote, store, ops>>

\* What ots upgrade can leave at req.ots: the file as it was, the file with
\* one more attestation, or no file.
UpgradedFiles(f) ==
    {f, Absent} \cup {File(Append(f.data, EncodeAtt(BitcoinAtt(x)))) : x \in Txids}

\* main.py:67-70: ots upgrade req.ots, with any exit status.
SubmitUpgrade(p) ==
    /\ pc[p] = "s_upgrade"
    /\ ran' = [ran EXCEPT ![p] = Append(@, "upgrade")]
    /\ \E rc \in {0, 1}, f \in UpgradedFiles(tmp[p].req) :
         /\ returncode' = [returncode EXCEPT ![p] = Append(@, rc)]
         /\ tmp' = [tmp EXCEPT ![p].req = f]
    /\ pc' = [pc EXCEPT ![p] = "s_exists"]
    /\ UNCHANGED <<req, response, h, receipt, uvars, wrote, store, ops>>

\* SubmitExists that gives up on every nonzero exit.
SubmitExists_AnyNonzero(p) ==
    /\ pc[p] = "s_exists"
    /\ IF returncode[p][Len(returncode[p])] # 0
       THEN SubmitReturn(p, CalendarSubmitFailed)
       ELSE /\ pc' = [pc EXCEPT ![p] = "s_read"]
            /\ UNCHANGED <<response, tmp>>
    /\ UNCHANGED <<req, h, receipt, ran, returncode, uvars, wrote, store, ops>>

\* main.py:73-76: on a nonzero exit, give up only if req.ots is gone.
SubmitExists(p) ==
    /\ pc[p] = "s_exists"
    /\ IF returncode[p][Len(returncode[p])] # 0 /\ ~tmp[p].req.exists
       THEN SubmitReturn(p, CalendarSubmitFailed)
       ELSE /\ pc' = [pc EXCEPT ![p] = "s_read"]
            /\ UNCHANGED <<response, tmp>>
    /\ UNCHANGED <<req, h, receipt, ran, returncode, uvars, wrote, store, ops>>

\* main.py:79-80: read req.ots, then leave the with block.
SubmitRead(p) ==
    /\ pc[p] = "s_read"
    /\ IF tmp[p].req.exists
       THEN /\ receipt' = [receipt EXCEPT ![p] = tmp[p].req.data]
            /\ tmp' = [tmp EXCEPT ![p] = NoDir]
            /\ pc' = [pc EXCEPT ![p] = "s_respond"]
            /\ UNCHANGED response
       ELSE /\ SubmitReturn(p, Unhandled)
            /\ UNCHANGED receipt
    /\ UNCHANGED <<req, h, ran, returncode, uvars, wrote, store, ops>>

\* main.py:82-85: answer with the receipt in base64.
SubmitRespond(p) ==
    /\ pc[p] = "s_respond"
    /\ pc' = [pc EXCEPT ![p] = "done"]
    /\ response' = [response EXCEPT ![p] = SubmitOk(receipt[p])]
    /\ UNCHANGED <<req, svars, uvars, wrote, store, ops>>

\* submit(): worker p takes a request.
SubmitStart(p) == \E body \in SubmitBodies : SubmitReceive(p, body)

\* submit(): worker p takes the next step of the handler.
SubmitStep(p) ==
    \/ SubmitValidate(p)
    \/ SubmitMkTmp(p)
    \/ SubmitPrepare(p)
    \/ SubmitStamp(p)
    \/ SubmitRename(p)
    \/ SubmitUpgrade(p)
    \/ SubmitExists(p)
    \/ SubmitRead(p)
    \/ SubmitRespond(p)

(* --------------------------- specifications ---------------------------- *)

\* Concurrent upgrade requests on the receipts directory.
Next == \E p \in Procs : UpgradeStart(p) \/ UpgradeStep(p) \/ Return(p)

Spec == Init /\ [][Next]_vars

\* No request is being served.
Quiet == \A p \in Procs : pc[p] = "idle"

\* One client sends submit and upgrade requests one after another; submit()
\* shares no state with any other request, so nothing is lost by it.
NextSubmit ==
    \E p \in Procs :
        \/ Quiet /\ SubmitStart(p)
        \/ Quiet /\ UpgradeStart(p)
        \/ SubmitStep(p)
        \/ UpgradeStep(p)
        \/ Return(p)

SpecSubmit == Init /\ [][NextSubmit]_vars

\* Candidate digests: a run of one character, at most one other character
\* put into it, whitespace before and after.
DigestInputs ==
    {Rep(" ", a) \o [i \in 1..n |-> IF i = k THEN d ELSE c] \o Rep("\n", b) :
        a \in 0..MaxPad, b \in 0..MaxPad,
        c \in {"0", "a", "F"},
        d \in {"9", "f", "A", "G", "z", " ", "\t"},
        n \in {0, DigestLen - 1, DigestLen, DigestLen + 1},
        k \in {1, 2, DigestLen}}

\* A worker is about to validate the hash of a submit request.
InitDigest ==
    /\ \E p \in Procs :
         /\ pc = [q \in Procs |-> IF q = p THEN "s_validate" ELSE "idle"]
         /\ \E str \in DigestInputs :
              req = [q \in Procs |->
                       IF q = p
                       THEN [route |-> "/submit", id |-> <<"doc1">>, hash |-> str]
                       ELSE NoRequest]
    /\ proof_id = [p \in Procs |-> NoId]
    /\ ts = [p \in Procs |-> <<>>]
    /\ response = [p \in Procs |-> NoResponse]
    /\ loaded = [p \in Procs |-> <<>>]
    /\ h = [p \in Procs |-> <<>>]
    /\ tmp = [p \in Procs |-> NoDir]
    /\ receipt = [p \in Procs |-> <<>>]
    /\ ran = [p \in Procs |-> <<>>]
    /\ returncode = [p \in Procs |-> <<>>]
    /\ adapter = [p \in Procs |-> "none"]
    /\ wrote = [p \in Procs |-> FALSE]
    /\ files = [q \in Paths |-> Absent]
    /\ written = [q \in Paths |-> {}]
    /\ wasAnchored = [q \in Paths |-> FALSE]
    /\ ops = 1

NextDigest == \E p \in Procs : SubmitValidate(p)

\* The digest check of submit() on the candidate digests.
SpecDigest == InitDigest /\ [][NextDigest]_vars

\* Timestamps with one to MaxAtts attestations, in iteration order.
Timestamps == UNION {[1..n -> Attestations] : n \in 1..MaxAtts}

\* A worker has rewritten the receipt of doc1 and is about to extract the
\* txid of its timestamp.
InitExtract ==
    /\ \E p \in Procs, t \in Timestamps :
         /\ pc = [q \in Procs |-> IF q = p THEN "u_respond" ELSE "idle"]
         /\ req = [q \in Procs |->
                     IF q = p
                     THEN [route |-> "/upgrade", id |-> <<"doc1">>, hash |-> <<>>]
                     ELSE NoRequest]
         /\ proof_id = [q \in Procs |-> IF q = p THEN <<"doc1">> ELSE NoId]
         /\ ts = [q \in Procs |-> IF q = p THEN t ELSE <<>>]
         /\ loaded = [q \in Procs |-> IF q = p THEN serialize(t) ELSE <<>>]
         /\ adapter = [q \in Procs |-> IF q = p THEN "nochange" ELSE "none"]
         /\ wrote = [q \in Procs |-> q = p]
         /\ files = [q \in Paths |->
                       IF q = Location(<<"doc1">>) THEN File(serialize(t)) ELSE Absent]
    /\ response = [p \in Procs |-> NoResponse]
    /\ h = [p \in Procs |-> <<>>]
    /\ tmp = [p \in Procs |-> NoDir]
    /\ receipt = [p \in Procs |-> <<>>]
    /\ ran = [p \in Procs |-> <<>>]
    /\ returncode = [p \in Procs |-> <<>>]
    /\ written = [q \in Paths |-> IF files[q].exists THEN {files[q].data} ELSE {}]
    /\ wasAnchored = [q \in Paths |-> Anchored(files[q])]
    /\ ops = 1

NextExtract == \E p \in Procs : UpgradeRespond(p)

\* extract_txid on the timestamps, as the answer of upgrade() calls it.
SpecExtract == InitExtract /\ [][NextExtract]_vars

\* Upgrade requests whose id leads out of the receipts directory.
TraversalBodies == [route : {"/upgrade"}, id : TraversalIds \cup {NoId}, hash : {<<>>}]

\* Next to the receipts directory lies another receipt file, secret.ots.
InitTraversal ==
    /\ InitLocals
    /\ \E f, g \in InitFiles :
         files = [q \in Paths |->
                    IF q = Location(<<"doc1">>) THEN f
                    ELSE IF q = Location(<<"..", "secret">>) THEN g
                    ELSE Absent]
    /\ written = [q \in Paths |-> IF files[q].exists THEN {files[q].data} ELSE {}]
    /\ wasAnchored = [q \in Paths |-> Anchored(files[q])]
    /\ ops = 0

\* upgrade(): worker p takes a request with such an id.
TraversalStart(p) == \E body \in TraversalBodies : UpgradeReceive(p, body)

NextTraversal == \E p \in Procs : TraversalStart(p) \/ UpgradeStep(p) \/ Return(p)

\* Concurrent upgrades with ids that lead out of the receipts directory.
SpecTraversal == InitTraversal /\ [][NextTraversal]_vars

\* upgrade.py:50: upgrade_timestamp(ts) waits for a calendar that never
\* answers; the call has no timeout, so the handler stays in it.
UpgradeCallHangs(p) ==
    /\ pc[p] = "u_call"
    /\ pc' = [pc EXCEPT ![p] = "u_hung"]
    /\ adapter' = [adapter EXCEPT ![p] = "hung"]
    /\ UNCHANGED <<req, response, svars, proof_id, ts, loaded, wrote, store, ops>>

\* main.py:51-54, 67-70: subprocess.run of ots stamp or ots upgrade, called
\* without timeout, waits for a calendar that never answers.
SubmitCallHangs(p) ==
    /\ pc[p] \in {"s_stamp", "s_upgrade"}
    /\ pc' = [pc EXCEPT ![p] = "s_hung"]
    /\ ran' = [ran EXCEPT ![p] = Append(@, IF pc[p] = "s_stamp" THEN "stamp" ELSE "upgrade")]
    /\ UNCHANGED <<req, response, h, tmp, receipt, returncode, uvars, wrote, store, ops>>

\* What worker p can do next, a call that hangs included.
HangStep(p) ==
    \/ SubmitStep(p)
    \/ UpgradeStep(p)
    \/ Return(p)
    \/ UpgradeCallHangs(p)
    \/ SubmitCallHangs(p)

NextHang ==
    \E p \in Procs :
        \/ Quiet /\ SubmitStart(p)
        \/ Quiet /\ UpgradeStart(p)
        \/ HangStep(p)

\* Requests one after another with calendars that may never answer; every
\* worker is a thread that keeps running while it can take a step.
SpecHang == Init /\ [][NextHang]_vars /\ \A p \in Procs : WF_vars(HangStep(p))

(* ------------------------------ claims --------------------------------- *)

\* Worker p has loaded a receipt and has not finished persisting it.
InFlight(p) == pc[p] \in {"u_call", "u_open", "u_write"}

\* C1: for every proof id, at most one operation is between its load and
\* its persist step at any time.
C1_AtMostOneInFlightPerId ==
    \A p, q \in Procs :
        (p # q /\ InFlight(p) /\ InFlight(q)) => proof_id[p] # proof_id[q]

\* C2: once the receipt stored for an id is Anchored, no later stored
\* receipt for that id is Pending.
C2_AnchoredNeverBackToPending ==
    \A q \in Paths : wasAnchored[q] => ~Pending(files[q])

\* C3: when all upgrades have finished the store holds one of the complete
\* receipts that were written, or the original one; and a handler opens a
\* receipt for writing only while the store still holds what it loaded.
C3_NoMixtureNoLostUpdate ==
    /\ [](Quiet => \A q \in Paths : files[q].exists => files[q].data \in written[q])
    /\ [][\A p \in Procs :
            (pc[p] = "u_open" /\ pc'[p] = "u_write")
                => files[Location(proof_id[p])].data = loaded[p]]_vars

\* C4: whatever a reader finds at a receipt's path is a complete receipt:
\* the original one or one that a handler wrote.
C4_ReaderSeesCompleteReceipt ==
    \A q \in Paths : files[q].exists => files[q].data \in written[q]

\* C5: an upgrade whose adapter call failed answers 500 "Upgrade failed",
\* has not opened the receipt for writing, and its failing step leaves the
\* receipts directory as it was.
C5_AdapterFailureLeavesStore ==
    [][\A p \in Procs :
         adapter'[p] = "failed"
            => /\ pc'[p] = "done"
               /\ response'[p] = UpgradeFailed
               /\ ~wrote'[p]
               /\ (adapter[p] # "failed" => files' = files)]_vars

\* A worker's adapter call has failed on a receipt that is stored.
C5_Witness ==
    \E p \in Procs :
        /\ adapter[p] = "failed"
        /\ pc[p] = "done"
        /\ files[Location(proof_id[p])].data = loaded[p]

\* C6: an upgrade whose adapter reported no progress never writes the
\* store, and on a receipt without txid it answers success without txid.
C6_NoProgressLeavesStore ==
    \A p \in Procs :
        adapter[p] = "nochange"
            => /\ ~wrote[p]
               /\ (pc[p] = "done" /\ extract_txid(ts[p]) = None)
                     => (response[p].ok /\ response[p].txid = None)

\* The candidate is DigestLen hexadecimal digits of either case between
\* runs of whitespace.
IsPaddedHex(str) ==
    \E a \in 0..Len(str) :
        /\ a + DigestLen <= Len(str)
        /\ \A i \in 1..Len(str) :
             IF i <= a \/ i > a + DigestLen
             THEN str[i] \in Whitespace
             ELSE str[i] \in HexLower \cup HexUpper

\* The candidate is DigestLen lowercase hexadecimal digits.
IsLowerHex(str) ==
    /\ Len(str) = DigestLen
    /\ \A i \in 1..DigestLen : str[i] \in HexLower

\* Worker p has validated the hash of a submit request.
Validated(p) == req[p].route = "/submit" /\ pc[p] \notin {"idle", "s_validate"}

\* C7: a submit for an id that has a stored receipt is rejected with
\* AlreadyExists and does not write the store.
C7_SubmitIsCreateOnce ==
    \A p \in Procs :
        (/\ Validated(p)
         /\ pc[p] = "done"
         /\ IsLowerHex(req[p].hash)
         /\ files[Location(req[p].id)].exists)
            => /\ ~response[p].ok
               /\ response[p].error = "AlreadyExists"
               /\ ~wrote[p]

\* C8: after a successful submit the store holds, for the id of the
\* request, the receipt that was returned.
C8_SubmitPersistsReceipt ==
    \A p \in Procs :
        (Validated(p) /\ pc[p] = "done" /\ response[p].ok)
            => /\ files[Location(req[p].id)].exists
               /\ b64(files[Location(req[p].id)].data) = response[p].receipt_b64

C10_InvalidDigestNoSideEffects ==
    /\ [](\A p \in Procs :
            (req[p].route = "/submit" /\ ~IsPaddedHex(req[p].hash))
               => /\ pc[p] \in {"s_validate", "done"}
                  /\ pc[p] = "done" => response[p] = InvalidDigest
                  /\ ran[p] = <<>>
                  /\ ~tmp[p].dir
                  /\ ~wrote[p])
    /\ [][\A p \in Procs :
            (pc[p] = "s_validate" /\ pc'[p] = "done") => files' = files]_vars

\* A submit with a digest that is not hexadecimal has been rejected.
C10_Witness ==
    \E p \in Procs :
        /\ req[p].route = "/submit"
        /\ ~IsPaddedHex(req[p].hash)
        /\ Len(req[p].hash) = DigestLen
        /\ pc[p] = "done"
        /\ response[p] = InvalidDigest

\* C18: in submit(), after a nonzero exit of ots upgrade the request goes on
\* whenever req.ots exists, and is then answered with success and the bytes
\* of that file; "calendar submit failed" is the answer exactly when the
\* exit was nonzero and req.ots is absent.
C18_NonzeroUpgradeIsPending ==
    [][\A p \in Procs :
         /\ (pc[p] = "s_exists" /\ pc'[p] # "s_exists")
               => LET rc == returncode[p][Len(returncode[p])]
                      there == tmp[p].req.exists
                  IN  /\ (pc'[p] = "done" /\ response'[p] = CalendarSubmitFailed)
                            <=> (rc # 0 /\ ~there)
                      /\ there => (pc'[p] = "s_read" /\ tmp'[p] = tmp[p])
         /\ (pc[p] = "s_read" /\ pc'[p] # "s_read" /\ tmp[p].req.exists)
               => (pc'[p] = "s_respond" /\ receipt'[p] = tmp[p].req.data)
         /\ (pc[p] = "s_respond" /\ pc'[p] # "s_respond")
               => /\ pc'[p] = "done"
                  /\ response'[p].ok
                  /\ response'[p].receipt_b64 = b64(receipt[p])
         /\ response'[p] = CalendarSubmitFailed
               => (pc[p] = "s_exists" \/ response[p] = CalendarSubmitFailed)]_vars

\* A submit whose ots upgrade exited nonzero has been answered with success.
C18_Witness ==
    \E p \in Procs :
        /\ pc[p] = "done"
        /\ response[p].ok
        /\ req[p].route = "/submit"
        /\ Len(returncode[p]) = 4
        /\ returncode[p][4] # 0

\* The steps of submit() in the order of the code.
SubmitOrder == <<"mkdtemp", "prepare", "stamp", "mv", "upgrade">>

\* The answer to a failure of prepare, stamp and rename, by position.
StepError == <<PrepareFailed, StampFailed, RenameFailed>>

\* C19: submit() runs prepare, stamp, rename, upgrade in this order; a
\* nonzero exit of prepare, stamp or rename is the last step run and is
\* answered with the error of that step; success is returned only after all
\* three exited 0.
C19_StepsInOrderStopAtFailure ==
    \A p \in Procs :
        req[p].route = "/submit"
            => /\ Len(ran[p]) <= Len(SubmitOrder)
               /\ ran[p] = SubmitOrder \/ ran[p] = SubSeq(SubmitOrder, 1, Len(ran[p]))
               /\ Len(returncode[p]) = IF ran[p] = <<>> THEN 0 ELSE Len(ran[p]) - 1
               /\ \A i \in 1..Len(returncode[p]) :
                    (i <= 3 /\ returncode[p][i] # 0)
                        => /\ i = Len(returncode[p])
                           /\ pc[p] = "done"
                           /\ response[p] = StepError[i]
               /\ response[p].ok
                    => /\ Len(returncode[p]) = 4
                       /\ \A i \in 1..3 : returncode[p][i] = 0

\* A submit has ended at a failed rename, after prepare and stamp.
C19_Witness ==
    \E p \in Procs :
        /\ pc[p] = "done"
        /\ response[p] = RenameFailed
        /\ ran[p] = <<"mkdtemp", "prepare", "stamp", "mv">>
        /\ returncode[p] = <<0, 0, 1>>

\* C11: an upgrade for an id without stored receipt ends at the test of
\* existence with "Receipt not found": it has neither read a receipt nor
\* called the adapter nor opened a file for writing, and no step creates a
\* receipt where there was none.
C11_MissingReceiptIsNotFound ==
    /\ [](\A p \in Procs :
            (/\ req[p].route = "/upgrade"
             /\ proof_id[p] # NoId
             /\ ~files[Location(proof_id[p])].exists)
               => /\ pc[p] \in {"u_check", "done"}
                  /\ pc[p] = "done" => response[p] = NotFound
                  /\ adapter[p] = "none"
                  /\ loaded[p] = <<>>
                  /\ ~wrote[p])
    /\ [][\A q \in Paths : ~files[q].exists => ~files'[q].exists]_vars

\* An upgrade for the id without receipt has been answered "not found".
C11_Witness ==
    \E p \in Procs :
        /\ pc[p] = "done"
        /\ proof_id[p] = <<"missing">>
        /\ response[p] = NotFound
        /\ ~files[Location(<<"missing">>)].exists

\* C16: a path that holds a non-empty receipt holds a non-empty receipt
\* after every step.
C16_ReceiptStaysNonEmpty ==
    [][\A q \in Paths :
         (files[q].exists /\ Len(files[q].data) > 0)
            => (files'[q].exists /\ Len(files'[q].data) > 0)]_vars

\* C17: the answer of a successful upgrade carries the bytes stored for the
\* id at that moment, the txid extracted from those bytes, and zero
\* confirmations.
C17_ReturnsCurrentReceipt ==
    [][\A p \in Procs :
         (pc[p] = "u_respond" /\ pc'[p] = "done" /\ response'[p].ok)
            => LET stored == files'[Location(proof_id[p])] IN
                 /\ stored.exists
                 /\ response'[p].receipt_b64 = b64(stored.data)
                 /\ Parses(stored.data)
                 /\ response'[p].txid = extract_txid(deserialize(stored.data))
                 /\ response'[p].confirmations = 0]_vars

\* The attestation is of the class that carries a txid.
Exposes(att) == att.cls = "Bitcoin"

\* C15: the txid of an answer is that of the first attestation, in the
\* order of iteration, that carries one, and it is None exactly when no
\* attestation of the timestamp carries one.
C15_FirstTxidWins ==
    \A p \in Procs :
        (pc[p] = "done" /\ response[p].ok)
            => LET t == ts[p]
                   r == response[p].txid IN
                 /\ (r = None) <=> (\A i \in 1..Len(t) : ~Exposes(t[i]))
                 /\ r # None =>
                      \E i \in 1..Len(t) :
                          /\ Exposes(t[i])
                          /\ r = t[i].txid
                          /\ \A j \in 1..(i - 1) : ~Exposes(t[j])

\* An answer for a timestamp with two anchoring attestations after a
\* pending one carries the txid of the first of the two.
C15_Witness ==
    \E p \in Procs :
        /\ pc[p] = "done"
        /\ response[p].ok
        /\ Len(ts[p]) >= 3
        /\ ts[p][1] = PendingAtt
        /\ ts[p][2] = BitcoinAtt("tx2")
        /\ ts[p][3] = BitcoinAtt("tx1")
        /\ response[p].txid = "tx2"

\* C12: every finished upgrade carries a success or one of the error
\* answers the handler builds itself; none ends with the exception of a
\* failed deserialization escaping the handler.
C12_UpgradeEndsClassified ==
    \A p \in Procs :
        (pc[p] = "done" /\ req[p].route = "/upgrade")
            => \/ response[p].ok
               \/ response[p] \in {MissingId, NotFound, UpgradeFailed}

\* The file lies in the receipts directory.
InReceiptsDir(path) ==
    /\ Len(path) = Len(receipts_dir) + 1
    /\ SubSeq(path, 1, Len(receipts_dir)) = receipts_dir

\* C14: a handler that has got as far as reading or writing a receipt
\* works on a file in the receipts directory, and its id has no ".."
\* segment and no separator.
C14_StoreAccessInsideReceiptsDir ==
    \A p \in Procs :
        (pc[p] \in {"u_call", "u_open", "u_write", "u_respond"} \/ wrote[p])
            => /\ InReceiptsDir(Location(proof_id[p]))
               /\ Len(proof_id[p]) = 1
               /\ proof_id[p][1] # ".."

\* C13: every request that a worker has taken is answered in the end.
C13_EveryRequestReturns ==
    \A p \in Procs : (pc[p] # "idle") ~> (pc[p] = "done")

====
